---- MODULE Spec2Model ----
(***************************************************************************)
(* snapshot_service: the snapshot storage layer.                           *)
(*                                                                         *)
(*   storage.py  path convention, write_text, write_parquet_atomic         *)
(*   writer.py   main(): load -> write_parquet_atomic -> manifest.json ->  *)
(*               __SUCCESS, one loop iteration per dataset                 *)
(*   reader.py   list_dates, latest_date, load, load_manifest              *)
(*                                                                         *)
(* A Python str is a sequence of one-character strings; a pathlib.Path is  *)
(* the sequence of its segments below the filesystem root.  The local      *)
(* filesystem is (dirs, files); the object store is s3, keyed by           *)
(* "bucket/key".                                                           *)
(***************************************************************************)
EXTENDS Integers, Sequences, FiniteSets, TLC

(***************************************************************************)
(* Python str operations, as the source uses them                          *)
(***************************************************************************)

\* str.startswith(prefix)
startswith(s, p) == Len(s) >= Len(p) /\ SubSeq(s, 1, Len(p)) = p

\* str.lstrip(chars): drop leading characters that are in chars
lstrip(s, chars) ==
    IF \A i \in 1..Len(s) : s[i] \in chars THEN <<>>
    ELSE SubSeq(s, CHOOSE i \in 1..Len(s) :
                       s[i] \notin chars /\ \A j \in 1..(i - 1) : s[j] \in chars,
                Len(s))

\* str.rstrip(chars): drop trailing characters that are in chars
rstrip(s, chars) ==
    IF \A i \in 1..Len(s) : s[i] \in chars THEN <<>>
    ELSE SubSeq(s, 1, CHOOSE i \in 1..Len(s) :
                          s[i] \notin chars /\ \A j \in (i + 1)..Len(s) : s[j] \in chars)

\* str.strip(chars)
strip(s, chars) == rstrip(lstrip(s, chars), chars)

\* the characters str.strip() without argument removes
WHITESPACE == {" ", "\t", "\n", "\r"}

\* str.find(sub) + 1: the place of the first occurrence of sub in s, 0 if none
find(s, sub) ==
    LET at == {i \in 1..(Len(s) - Len(sub) + 1) : SubSeq(s, i, i + Len(sub) - 1) = sub}
    IN  IF at = {} THEN 0 ELSE CHOOSE i \in at : \A j \in at : i <= j

\* str.replace(old, new), old not empty: every non-overlapping occurrence,
\* left to right
RECURSIVE replace(_, _, _)
replace(s, old, new) ==
    IF Len(old) = 1 /\ Len(new) = 1
    THEN [i \in 1..Len(s) |-> IF s[i] = old[1] THEN new[1] ELSE s[i]]
    ELSE LET i == find(s, old)
         IN  IF i = 0 THEN s
             ELSE SubSeq(s, 1, i - 1) \o new
                    \o replace(SubSeq(s, i + Len(old), Len(s)), old, new)

\* str.split(sep) for a one-character sep: the list of fields
split(s, sep) ==
    LET hits   == {i \in 1..Len(s) : s[i] = sep}
        hit(k) == IF k = 0 THEN 0
                  ELSE IF k > Cardinality(hits) THEN Len(s) + 1
                  ELSE CHOOSE h \in hits : Cardinality({g \in hits : g < h}) = k - 1
    IN  [k \in 1..(Cardinality(hits) + 1) |-> SubSeq(s, hit(k - 1) + 1, hit(k) - 1)]

\* str.split(sep, 1): at most one split
split1(s, sep) ==
    LET i == find(s, <<sep>>)
    IN  IF i = 0 THEN <<s>> ELSE <<SubSeq(s, 1, i - 1), SubSeq(s, i + 1, Len(s))>>

\* sep.join(parts)
RECURSIVE join(_, _)
join(sep, parts) ==
    IF parts = <<>> THEN <<>>
    ELSE IF Len(parts) = 1 THEN parts[1]
    ELSE parts[1] \o sep \o join(sep, Tail(parts))

\* str.lower() on the letters that occur in the model's names
lower(c) ==
    CASE c = "P" -> "p" [] c = "A" -> "a" [] c = "R" -> "r" [] c = "Q" -> "q"
      [] c = "U" -> "u" [] c = "E" -> "e" [] c = "T" -> "t" [] OTHER -> c

DIGITS == {"0", "1", "2", "3", "4", "5", "6", "7", "8", "9"}

\* code point order of the characters a date string is made of
ord(c) ==
    CASE c = "-" -> 45 [] c = "0" -> 48 [] c = "1" -> 49 [] c = "2" -> 50
      [] c = "3" -> 51 [] c = "4" -> 52 [] c = "5" -> 53 [] c = "6" -> 54
      [] c = "7" -> 55 [] c = "8" -> 56 [] c = "9" -> 57 [] OTHER -> 127

\* Python's str < str: lexicographic by code point
RECURSIVE str_lt(_, _)
str_lt(a, b) ==
    IF b = <<>> THEN FALSE
    ELSE IF a = <<>> THEN TRUE
    ELSE IF a[1] # b[1] THEN ord(a[1]) < ord(b[1])
    ELSE str_lt(Tail(a), Tail(b))

\* sorted(set_of_str): the ascending list of a set of strings
RECURSIVE sorted(_)
sorted(S) ==
    IF S = {} THEN <<>>
    ELSE LET m == CHOOSE x \in S : \A y \in S \ {x} : str_lt(x, y)
         IN  <<m>> \o sorted(S \ {m})

(***************************************************************************)
(* Words of the model                                                      *)
(***************************************************************************)

S3_SCHEME   == <<"s", "3", ":", "/", "/">>
FILE_SCHEME == <<"f", "i", "l", "e", ":", "/", "/">>
SLASH       == <<"/">>
BACKSLASH   == <<"\\">>
DOT_PARQUET == <<".", "p", "a", "r", "q", "u", "e", "t">>
TMP         == <<"t", "m", "p">>
MANIFEST_JSON == <<"m", "a", "n", "i", "f", "e", "s", "t", ".", "j", "s", "o", "n">>
SUCCESS_NAME  == <<"_", "_", "S", "U", "C", "C", "E", "S", "S">>


\* the configured cases of a base location (spec section 6: s3://bucket/prefix,
\* file://..., bare absolute path, bare relative path)
BASE_S3        == S3_SCHEME \o <<"b", "/", "p">>
BASE_FILE_ABS  == FILE_SCHEME \o <<"/", "a">>
BASE_FILE_REL  == FILE_SCHEME \o <<".", "/", "d">>
BASE_BARE_ABS  == <<"/", "a">>
BASE_BARE_REL  == <<"d">>
BaseForms == {BASE_S3, BASE_FILE_ABS, BASE_FILE_REL, BASE_BARE_ABS, BASE_BARE_REL}

\* the keys of database_dicts the model runs
Datasets == {<<"e", "n", "r">>, <<"l", "i", "c">>}

(***************************************************************************)
(* datetime.date and pathlib.Path                                          *)
(***************************************************************************)

digit(n) ==
    CASE n = 0 -> "0" [] n = 1 -> "1" [] n = 2 -> "2" [] n = 3 -> "3"
      [] n = 4 -> "4" [] n = 5 -> "5" [] n = 6 -> "6" [] n = 7 -> "7"
      [] n = 8 -> "8" [] n = 9 -> "9"

\* date.isoformat(): YYYY-MM-DD, zero padded
isoformat(d) ==
    <<digit(d.year \div 1000), digit((d.year \div 100) % 10),
      digit((d.year \div 10) % 10), digit(d.year % 10), "-",
      digit(d.month \div 10), digit(d.month % 10), "-",
      digit(d.day \div 10), digit(d.day % 10)>>

\* the process's working directory, /w
CWD == <<<<"w">>>>

\* os.name of the platform the model describes
OS_NAME == "posix"

\* Path(p).resolve() on POSIX: the segments below "/", relative paths taken
\* from the working directory, "" and "." segments dropped, ".." popping
RECURSIVE normparts(_, _)
normparts(acc, segs) ==
    IF segs = <<>> THEN acc
    ELSE IF segs[1] = <<>> \/ segs[1] = <<".">> THEN normparts(acc, Tail(segs))
    ELSE IF segs[1] = <<".", ".">>
         THEN normparts(IF acc = <<>> THEN acc ELSE SubSeq(acc, 1, Len(acc) - 1),
                        Tail(segs))
    ELSE normparts(Append(acc, segs[1]), Tail(segs))

Path_resolve(p) ==
    normparts(IF startswith(p, SLASH) THEN <<>> ELSE CWD, split(p, "/"))

\* str(path) of a resolved POSIX path
Path_str(path) == IF path = <<>> THEN SLASH ELSE SLASH \o join(SLASH, path)

\* path.name, path.parent, path / name
Path_name(path)   == IF path = <<>> THEN <<>> ELSE path[Len(path)]
Path_parent(path) == IF path = <<>> THEN <<>> ELSE SubSeq(path, 1, Len(path) - 1)
Path_child(path, name) == Append(path, name)

\* path and every ancestor of it: what mkdir(parents=True, exist_ok=True) ensures
Path_with_parents(path) == {SubSeq(path, 1, n) : n \in 0..Len(path)}

(***************************************************************************)
(* storage.py: path convention                                             *)
(***************************************************************************)

_is_s3(uri) == startswith(uri, S3_SCHEME)

\* "/".join(p.strip("/").replace("\\", "/") for p in parts)
_join_uri(parts) ==
    join(SLASH, [i \in 1..Len(parts) |->
                    replace(strip(parts[i], {"/"}), BACKSLASH, SLASH)])

_local_path_from_uri(uri) ==
    IF startswith(uri, FILE_SCHEME)
    THEN Path_resolve(replace(uri, FILE_SCHEME, <<>>))
    ELSE Path_resolve(uri)

_last_segment_from_uri(uri) ==
    IF _is_s3(uri)
    THEN LET path  == rstrip(SubSeq(uri, 6, Len(uri)), {"/"})
             parts == split(path, "/")
         IN  parts[Len(parts)]
    ELSE Path_name(_local_path_from_uri(uri))

snapshot_root(base_uri, dataset) == _join_uri(<<base_uri, dataset>>)

snapshot_uri(base_uri, dataset, d) ==
    _join_uri(<<snapshot_root(base_uri, dataset), isoformat(d)>>)

object_uri(folder_uri, name) == _join_uri(<<folder_uri, name>>)

\* bucket, rest = uri[5:].split("/", 1)
s3_bucket(uri) == split1(SubSeq(uri, 6, Len(uri)), "/")[1]
s3_rest(uri)   == split1(SubSeq(uri, 6, Len(uri)), "/")[2]

\* the store key "bucket/key" of an object, as s3fs and boto3 both address it
s3_object(bucket, key) == bucket \o SLASH \o key


(***************************************************************************)
(* reader.py: URI / path helpers                                           *)
(***************************************************************************)

\* a call that returns val, and a call that raises exc
Return(val) == [exc |-> "none", val |-> val]
Raise(exc, names) == [exc |-> exc, names |-> names]

LETTERS ==
    {"a", "b", "c", "d", "e", "f", "g", "h", "i", "j", "k", "l", "m", "n", "o",
     "p", "q", "r", "s", "t", "u", "v", "w", "x", "y", "z", "A", "B", "C", "D",
     "E", "F", "G", "H", "I", "J", "K", "L", "M", "N", "O", "P", "Q", "R", "S",
     "T", "U", "V", "W", "X", "Y", "Z"}

\* the value of SNAPSHOT_BASE_URI in the reader's environment (<<>>: unset)
ENV_SNAPSHOT_BASE_URI == <<>>

\* os.getenv("SNAPSHOT_BASE_URI") or "file://./data/snapshots"
_get_default_base_uri ==
    IF ENV_SNAPSHOT_BASE_URI # <<>> THEN ENV_SNAPSHOT_BASE_URI
    ELSE FILE_SCHEME \o <<".", "/", "d", "a", "t", "a", "/",
                          "s", "n", "a", "p", "s", "h", "o", "t", "s">>

\* re.match(r"^[A-Za-z]:[\\/]", b)
is_drive_path(b) ==
    Len(b) >= 3 /\ b[1] \in LETTERS /\ b[2] = ":" /\ b[3] \in {"\\", "/"}

\* base_uri of <<>> stands for None or ""
_coerce_base(base_uri) ==
    LET b == strip(strip(strip(IF base_uri = <<>> THEN _get_default_base_uri
                               ELSE base_uri, WHITESPACE), {"\""}), {"'"})
    IN  IF b = <<>> THEN Raise("ValueError", {})
        ELSE IF startswith(b, S3_SCHEME) \/ startswith(b, FILE_SCHEME) THEN Return(b)
        ELSE IF is_drive_path(b)
             THEN Return(FILE_SCHEME \o SLASH \o replace(b, BACKSLASH, SLASH))
        ELSE IF startswith(b, SLASH) THEN Return(FILE_SCHEME \o b)
        ELSE Return(FILE_SCHEME
                    \o replace(Path_str(Path_resolve(b)), BACKSLASH, SLASH))

\* urlparse(s).path of a file:// URI: what follows the authority, which runs
\* from "//" to the next "/" (the model's URIs hold no "?", "#", ";" or "%",
\* so query, fragment, params and unquote() leave the path as it is)
urlparse_path(s) ==
    LET rest == SubSeq(s, Len(FILE_SCHEME) + 1, Len(s))
        hits == {i \in 1..Len(rest) : rest[i] = "/"}
    IN  IF hits = {} THEN <<>>
        ELSE SubSeq(rest, CHOOSE h \in hits : \A g \in hits : h <= g, Len(rest))

_uri_to_local_path(s) ==
    IF startswith(s, FILE_SCHEME)
    THEN LET p == urlparse_path(s)
         IN  Path_resolve(IF OS_NAME = "nt" /\ startswith(p, SLASH)
                          THEN lstrip(p, {"/"}) ELSE p)
    ELSE Path_resolve(s)

\* f"{base.rstrip('/')}/{dataset}", for a base _coerce_base accepts
_dataset_dir(base_uri, dataset) ==
    rstrip(_coerce_base(base_uri).val, {"/"}) \o SLASH \o dataset

snapshot_path(dataset, date_str, base_uri) ==
    _dataset_dir(base_uri, dataset) \o SLASH \o date_str \o SLASH
        \o date_str \o DOT_PARQUET

_snapshot_path_flat(dataset, date_str, base_uri) ==
    _dataset_dir(base_uri, dataset) \o SLASH \o date_str \o DOT_PARQUET

manifest_path(dataset, date_str, base_uri) ==
    _dataset_dir(base_uri, dataset) \o SLASH \o date_str \o SLASH \o MANIFEST_JSON

\* DATE_DIR_RE = ^\d{4}-\d{2}-\d{2}$
DATE_DIR_RE(n) ==
    /\ Len(n) = 10
    /\ n[5] = "-" /\ n[8] = "-"
    /\ \A i \in {1, 2, 3, 4, 6, 7, 9, 10} : n[i] \in DIGITS

\* DATE_FILE_RE = ^(\d{4}-\d{2}-\d{2})\.parquet$ with re.IGNORECASE
DATE_FILE_RE(n) ==
    /\ Len(n) = 10 + Len(DOT_PARQUET)
    /\ DATE_DIR_RE(SubSeq(n, 1, 10))
    /\ [i \in 1..Len(DOT_PARQUET) |-> lower(n[10 + i])] = DOT_PARQUET

\* m.group(1) of a DATE_FILE_RE match
date_of_file(n) == SubSeq(n, 1, 10)


(***************************************************************************)
(* State                                                                   *)
(***************************************************************************)

\* writer runs (loop iterations of main) in all
MaxRuns == 2

\* invocations of writer.main
Writers == {1, 2}

\* main(only_datasets=...) of the sequential runs: one key of database_dicts
only_datasets == {<<"e", "n", "r">>}

\* the values DATE_TODAY = date.today() takes in the runs
Day(n) == [year |-> 2025, month |-> 8, day |-> 8 + n]
Dates  == {Day(1), Day(2)}

\* non-empty DataFrames a loader returns (a DataFrame is its list of rows)
Payloads == {<<1>>, <<2, 3>>}

\* the DataFrame of a snapshot written by the legacy flat layout
LegacyPayload == <<9>>

\* the dataset and the date that may hold a legacy flat snapshot at the start
LegacyDataset == <<"e", "n", "r">>
LegacyDates   == {isoformat(Day(1))}

VARIABLES
    base,    \* the base location given to the writer (BASE_URI) and the reader
    dirs,    \* local filesystem: the directories (resolved paths)
    files,   \* local filesystem: resolved path -> object
    s3,      \* object store: "bucket/key" -> object
    w,       \* per writer: the loop iteration of main() it is in
    clock,   \* writer runs started so far
    call     \* a call of a path function: its arguments and its return value

vars == <<base, dirs, files, s3, w, clock, call>>

\* no path function has been called
NoCall == [op |-> "none", pc |-> "none", folder |-> <<>>, name |-> <<>>,
           d |-> Day(1), out |-> <<>>]

\* DataFrame.to_parquet(index=False): the parquet object of a DataFrame
to_parquet(df) == [fmt |-> "parquet", rows |-> df, meta |-> <<>>]

\* str.encode("utf-8") written as an object: manifest.json and __SUCCESS
text_object(content) == [fmt |-> "text", rows |-> <<>>, meta |-> content]

\* pd.read_parquet of a stored object
read_parquet_object(obj) ==
    IF obj.fmt = "parquet" THEN Return(obj.rows) ELSE Raise("ArrowInvalid", {})

\* f @@ (k :> v) with v winning
put(f, k, v) == (k :> v) @@ f

\* f without key k
remove(f, k) == [x \in (DOMAIN f) \ {k} |-> f[x]]

Idle == [pc |-> "idle", dataset |-> <<>>, df |-> <<>>, today |-> Day(1), run |-> 0,
         success |-> FALSE, err |-> "", result |-> "", log |-> <<>>, prior |-> <<>>,
         promoted_at |-> 0]

\* the legacy flat snapshots of the reader's dataset root, as local files
LegacyFiles(b, dates) ==
    [p \in {_uri_to_local_path(_snapshot_path_flat(LegacyDataset, d, b)) : d \in dates}
        |-> to_parquet(LegacyPayload)]

\* the same as store objects
LegacyObjects(b, dates) ==
    [k \in {SubSeq(_snapshot_path_flat(LegacyDataset, d, b), 6,
                   Len(_snapshot_path_flat(LegacyDataset, d, b))) : d \in dates}
        |-> to_parquet(LegacyPayload)]

Init ==
    /\ base \in BaseForms
    /\ \E dates \in SUBSET LegacyDates :
          IF _is_s3(base)
          THEN /\ s3 = LegacyObjects(base, dates)
               /\ files = <<>>
               /\ dirs = {}
          ELSE /\ s3 = <<>>
               /\ files = LegacyFiles(base, dates)
               /\ dirs = UNION {Path_with_parents(Path_parent(p)) :
                                  p \in DOMAIN LegacyFiles(base, dates)}
    /\ w = [i \in Writers |-> Idle]
    /\ clock = 0
    /\ call = NoCall


(***************************************************************************)
(* writer.py main(): one loop iteration, and storage.py's writes           *)
(***************************************************************************)

\* destination = snapshot_uri(BASE_URI, dataset, DATE_TODAY)
destination(i) == snapshot_uri(base, w[i].dataset, w[i].today)

\* filename = f"{_last_segment_from_uri(folder_uri)}.parquet"
default_filename(folder_uri) == _last_segment_from_uri(folder_uri) \o DOT_PARQUET

\* write_parquet_atomic, local branch: folder, tmp_dir, tmp_path, final_path
local_folder(folder_uri)  == _local_path_from_uri(folder_uri)
\* a temp directory beside the partition folder instead of inside it
local_tmp_dir_beside(folder_uri) ==
    Path_child(Path_parent(local_folder(folder_uri)), TMP)

local_tmp_dir(folder_uri) == Path_child(local_folder(folder_uri), TMP)

local_tmp_path(folder_uri) ==
    Path_child(local_tmp_dir(folder_uri), default_filename(folder_uri))
local_final_path(folder_uri) ==
    Path_child(local_folder(folder_uri), default_filename(folder_uri))

\* write_parquet_atomic, S3 branch: tmp_key and final_key, as "bucket/key"
s3_tmp_key(folder_uri) ==
    s3_object(s3_bucket(folder_uri),
              _join_uri(<<s3_rest(folder_uri), TMP, default_filename(folder_uri)>>))
s3_final_key(folder_uri) ==
    s3_object(s3_bucket(folder_uri),
              _join_uri(<<s3_rest(folder_uri), default_filename(folder_uri)>>))

\* the manifest dict of main(), json.dumps'ed: dataset, rows, produced_for,
\* produced_at (the run's clock reading)
manifest_of(i) ==
    <<w[i].dataset, Len(w[i].df), isoformat(w[i].today), w[i].run>>

(***************************************************************************)
(* storage.py has_success_marker, and reader.py's public API               *)
(***************************************************************************)

\* None, and the empty str: both are falsy where the reader tests them
None == <<>>

\* path.exists() on the local filesystem
exists(path) == path \in dirs \/ path \in DOMAIN files

has_success_marker(folder_uri) ==
    LET marker == object_uri(folder_uri, SUCCESS_NAME)
    IN  IF _is_s3(folder_uri)
        THEN s3_object(split1(SubSeq(marker, 6, Len(marker)), "/")[1],
                       split1(SubSeq(marker, 6, Len(marker)), "/")[2]) \in DOMAIN s3
        ELSE exists(_local_path_from_uri(marker))

\* fs.ls(root[5:]) of s3fs: the children (objects and pseudo-directories) of
\* the prefix, [] when there is none (FileNotFoundError)
_s3_list_paths(root) ==
    LET s3_root == SubSeq(root, 6, Len(root))
        pre     == s3_root \o SLASH
    IN  {pre \o split(SubSeq(k, Len(pre) + 1, Len(k)), "/")[1] :
            k \in {x \in DOMAIN s3 : startswith(x, pre)}}

\* the dates list_dates collects from the names of the children of the root
\* list_dates without the scan for legacy flat files
dates_of_names_folders_only(dir_names, file_names) ==
    {n \in dir_names : DATE_DIR_RE(n)}

dates_of_names(dir_names, file_names) ==
    {n \in dir_names : DATE_DIR_RE(n)}
        \cup {date_of_file(n) : n \in {x \in file_names : DATE_FILE_RE(x)}}

list_dates(dataset, base_uri) ==
    IF _coerce_base(base_uri).exc # "none" THEN _coerce_base(base_uri)
    ELSE LET root == _dataset_dir(base_uri, dataset)
         IN  IF _is_s3(root)
             THEN LET names == {rstrip(split(e, "/")[Len(split(e, "/"))], {"/"}) :
                                   e \in _s3_list_paths(root)}
                  IN  Return(sorted(dates_of_names(names, names)))
             ELSE LET ds_root == _uri_to_local_path(root)
                  IN  IF ~exists(ds_root) THEN Return(<<>>)
                      ELSE Return(sorted(dates_of_names(
                              {Path_name(p) : p \in {x \in dirs :
                                  x # <<>> /\ Path_parent(x) = ds_root}},
                              {Path_name(p) : p \in {x \in DOMAIN files :
                                  Path_parent(x) = ds_root}})))

latest_date(dataset, base_uri) ==
    LET dates == list_dates(dataset, base_uri)
    IN  IF dates.exc # "none" THEN dates
        ELSE Return(IF dates.val # <<>> THEN dates.val[Len(dates.val)] ELSE None)

\* pd.read_parquet(uri): the rows, FileNotFoundError naming uri when there is
\* no such object, BackendError when the read itself fails (faulty)
Loaded(rows, uri) == [exc |-> "none", val |-> rows, read |-> uri]

read_parquet_s3(uri, faulty) ==
    LET key == SubSeq(uri, 6, Len(uri))
    IN  IF key \notin DOMAIN s3 THEN Raise("FileNotFoundError", {uri})
        ELSE IF faulty THEN Raise("BackendError", {uri})
        ELSE IF read_parquet_object(s3[key]).exc # "none"
             THEN read_parquet_object(s3[key])
        ELSE Loaded(s3[key].rows, uri)

read_parquet_local(path, faulty) ==
    IF path \notin DOMAIN files THEN Raise("FileNotFoundError", {Path_str(path)})
    ELSE IF faulty THEN Raise("BackendError", {Path_str(path)})
    ELSE IF read_parquet_object(files[path]).exc # "none"
         THEN read_parquet_object(files[path])
    ELSE Loaded(files[path].rows, Path_str(path))

\* load without the fallback to the legacy flat layout
load_partitioned_only(dataset, date_str, base_uri, fault) ==
    LET pref == snapshot_path(dataset, date_str, base_uri)
    IN  IF _is_s3(pref) THEN read_parquet_s3(pref, "pref" \in fault)
        ELSE read_parquet_local(_uri_to_local_path(pref), "pref" \in fault)

\* load(dataset, date_str, base_uri); fault: which of the reads "pref", "flat"
\* fail in the backend
load(dataset, date_str, base_uri, fault) ==
    LET resolved == IF date_str # None THEN Return(date_str)
                    ELSE latest_date(dataset, base_uri)
    IN  IF resolved.exc # "none" THEN resolved
        ELSE IF resolved.val = None
             THEN IF _coerce_base(base_uri).exc # "none" THEN _coerce_base(base_uri)
                  ELSE Raise("FileNotFoundError", {})
        ELSE IF _coerce_base(base_uri).exc # "none" THEN _coerce_base(base_uri)
        ELSE LET pref == snapshot_path(dataset, resolved.val, base_uri)
                 flat == _snapshot_path_flat(dataset, resolved.val, base_uri)
             IN  IF _is_s3(pref)
                 THEN IF read_parquet_s3(pref, "pref" \in fault).exc = "none"
                      THEN read_parquet_s3(pref, "pref" \in fault)
                      ELSE read_parquet_s3(flat, "flat" \in fault)
                 ELSE LET p_pref == _uri_to_local_path(pref)
                          p_flat == _uri_to_local_path(flat)
                      IN  IF exists(p_pref)
                          THEN read_parquet_local(p_pref, "pref" \in fault)
                          ELSE IF exists(p_flat)
                          THEN read_parquet_local(p_flat, "flat" \in fault)
                          ELSE Raise("FileNotFoundError",
                                     {Path_str(p_pref), Path_str(p_flat)})

\* json.load of a stored manifest
read_json_object(obj) ==
    IF obj.fmt = "text" /\ obj.meta # <<>> THEN Return(obj.meta)
    ELSE Raise("JSONDecodeError", {})

load_manifest(dataset, date_str, base_uri) ==
    LET resolved == IF date_str # None THEN Return(date_str)
                    ELSE latest_date(dataset, base_uri)
    IN  IF resolved.exc # "none" THEN resolved
        ELSE IF resolved.val = None
             THEN IF _coerce_base(base_uri).exc # "none" THEN _coerce_base(base_uri)
                  ELSE Raise("FileNotFoundError", {})
        ELSE IF _coerce_base(base_uri).exc # "none" THEN _coerce_base(base_uri)
        ELSE LET mpath == manifest_path(dataset, resolved.val, base_uri)
             IN  IF _is_s3(mpath)
                 THEN IF SubSeq(mpath, 6, Len(mpath)) \notin DOMAIN s3
                      THEN Raise("FileNotFoundError", {mpath})
                      ELSE read_json_object(s3[SubSeq(mpath, 6, Len(mpath))])
                 ELSE LET lp == _uri_to_local_path(mpath)
                      IN  IF ~exists(lp)
                          THEN Raise("FileNotFoundError", {Path_str(lp)})
                          ELSE read_json_object(files[lp])

latest_snapshot(dataset, base_uri) ==
    LET date_str == latest_date(dataset, base_uri)
    IN  IF date_str.exc # "none" THEN date_str
        ELSE load(dataset, date_str.val, base_uri, {})

(***************************************************************************)
(* What is stored for a partition, seen from the writer's side and from    *)
(* the reader's side.  The places are those the path functions above give  *)
(* for the model's base locations, datasets and dates, tabulated once.     *)
(***************************************************************************)

DateStrs == {isoformat(d) : d \in Dates}

\* the elements of a list
Elems(seq) == {seq[k] : k \in 1..Len(seq)}

\* the object write_text(folder_uri, name, ...) writes
text_key(folder_uri, name) ==
    s3_object(s3_bucket(folder_uri), _join_uri(<<s3_rest(folder_uri), name>>))
text_path(folder_uri, name) == Path_child(_local_path_from_uri(folder_uri), name)

\* uri[5:], the store key of an s3:// URI
key_of(uri) == SubSeq(uri, 6, Len(uri))

\* the places the writer uses for (base b, dataset ds, date d): its folder
\* URI, and the store key or local path of the temp object, the final
\* payload, manifest.json and __SUCCESS
WriterPlaces ==
    [b \in BaseForms |-> [ds \in Datasets |-> [d \in Dates |->
        LET f == snapshot_uri(b, ds, d)
        IN  [folder   |-> f,
             tmp      |-> IF _is_s3(f) THEN s3_tmp_key(f) ELSE local_tmp_path(f),
             final    |-> IF _is_s3(f) THEN s3_final_key(f) ELSE local_final_path(f),
             manifest |-> IF _is_s3(f) THEN text_key(f, MANIFEST_JSON)
                          ELSE text_path(f, MANIFEST_JSON),
             marker   |-> IF _is_s3(f) THEN text_key(f, SUCCESS_NAME)
                          ELSE text_path(f, SUCCESS_NAME)]]]]

\* the places the reader uses for (base b, dataset ds, date string t): the
\* store key or local path of the partitioned payload, the legacy flat
\* payload and the date folder, and the names load() gives the two payloads
ReaderPlaces ==
    [b \in BaseForms |-> [ds \in Datasets |-> [t \in DateStrs |->
        LET pref == snapshot_path(ds, t, b)
            flat == _snapshot_path_flat(ds, t, b)
            dir  == _dataset_dir(b, ds) \o SLASH \o t
        IN  [pref     |-> IF _is_s3(pref) THEN key_of(pref) ELSE _uri_to_local_path(pref),
             flat     |-> IF _is_s3(flat) THEN key_of(flat) ELSE _uri_to_local_path(flat),
             folder   |-> IF _is_s3(dir) THEN key_of(dir) \o SLASH
                          ELSE _uri_to_local_path(dir),
             pref_loc |-> IF _is_s3(pref) THEN pref
                          ELSE Path_str(_uri_to_local_path(pref)),
             flat_loc |-> IF _is_s3(flat) THEN flat
                          ELSE Path_str(_uri_to_local_path(flat))]]]]

\* the reader's dataset root: the key prefix "bucket/prefix/ds/", or the path
ReaderRoot ==
    [b \in BaseForms |-> [ds \in Datasets |->
        IF _is_s3(_dataset_dir(b, ds)) THEN key_of(_dataset_dir(b, ds)) \o SLASH
        ELSE _uri_to_local_path(_dataset_dir(b, ds))]]

wp(ds, d) == WriterPlaces[base][ds][d]
rp(ds, t) == ReaderPlaces[base][ds][t]

\* what the storage state (local files F, store objects S) holds at a place:
\* <<object>>, or <<>> when nothing is stored there
stored_in(F, S, place) ==
    IF _is_s3(base)
    THEN IF place \in DOMAIN S THEN <<S[place]>> ELSE <<>>
    ELSE IF place \in DOMAIN F THEN <<F[place]>> ELSE <<>>

stored(place) == stored_in(files, s3, place)

tmp_exists(ds, d)      == stored(wp(ds, d).tmp) # <<>>
final_exists(ds, d)    == stored(wp(ds, d).final) # <<>>
manifest_exists(ds, d) == stored(wp(ds, d).manifest) # <<>>
marker_exists(ds, d)   == stored(wp(ds, d).marker) # <<>>

\* the rows of the complete partition (payload and __SUCCESS) a run finds at
\* its destination when it starts, <<>> when it finds none: kept for the
\* statements about re-runs, read by no step of the writer
prior_payload(ds, d) ==
    IF final_exists(ds, d) /\ marker_exists(ds, d)
    THEN stored(wp(ds, d).final)[1].rows ELSE <<>>

\* a legacy flat snapshot, and the partitioned payload, exist where the reader
\* looks for them
flat_exists(ds, t) == stored(rp(ds, t).flat) # <<>>
pref_exists(ds, t) == stored(rp(ds, t).pref) # <<>>

\* something is stored in or below the date folder of the reader's dataset root
date_folder_exists(ds, t) ==
    IF _is_s3(base) THEN \E k \in DOMAIN s3 : startswith(k, rp(ds, t).folder)
    ELSE rp(ds, t).folder \in dirs

\* the dataset root of the reader is absent
root_absent(ds) ==
    IF _is_s3(base) THEN ~ \E k \in DOMAIN s3 : startswith(k, ReaderRoot[base][ds])
    ELSE ReaderRoot[base][ds] \notin dirs /\ ReaderRoot[base][ds] \notin DOMAIN files

\* the run of writer i has written its marker and returned to main's loop
run_complete(i) == w[i].pc \in {"summary", "done"} /\ "marker" \in Elems(w[i].log)

\* the last element of a list, "" of the empty list
last(seq) == IF seq = <<>> THEN "" ELSE seq[Len(seq)]

\* the reads of load() that may fail in the backend
Faults == SUBSET {"pref", "flat"}

\* the loop body up to the loader's return: load_df() returned a non-empty df
StartRun(i) ==
    /\ base # <<>>
    /\ w[i].pc \in {"idle", "done", "crashed"}
    /\ clock < MaxRuns
    /\ \E ds \in only_datasets, df \in Payloads, d \in Dates :
          w' = [w EXCEPT ![i] =
                  [pc |-> IF _is_s3(base) THEN "put_tmp" ELSE "mkdir_tmp",
                   dataset |-> ds, df |-> df, today |-> d,
                   run |-> clock + 1, success |-> FALSE, err |-> "",
                   result |-> "", log |-> <<>>,
                   prior |-> prior_payload(ds, d), promoted_at |-> 0]]
    /\ clock' = clock + 1
    /\ UNCHANGED <<call, base, dirs, files, s3>>

\* load_df() raised, or returned None or an empty df ("Dataframe is empty")
LoadFails(i) ==
    /\ base # <<>>
    /\ w[i].pc \in {"idle", "done", "crashed"}
    /\ clock < MaxRuns
    /\ \E ds \in only_datasets, e \in {"LoaderError", "RuntimeError"}, d \in Dates :
          w' = [w EXCEPT ![i] =
                  [pc |-> "summary", dataset |-> ds, df |-> <<>>,
                   today |-> d, run |-> clock + 1, success |-> FALSE,
                   err |-> e, result |-> "", log |-> <<>>,
                   prior |-> prior_payload(ds, d), promoted_at |-> 0]]
    /\ clock' = clock + 1
    /\ UNCHANGED <<call, base, dirs, files, s3>>

\* the promotes executed so far by the runs in progress or finished: a promote
\* notes its ordinal in promoted_at, which no step of the writer reads
promotes_so_far ==
    CHOOSE n \in {w[j].promoted_at : j \in Writers} :
        \A j \in Writers : w[j].promoted_at <= n

\* the step of writer i moves to pc, having done op
Step(i, pc, op) == [w EXCEPT ![i].pc = pc, ![i].log = Append(@, op)]

\* tmp_dir.mkdir(parents=True, exist_ok=True)
MkdirTmp(i) ==
    /\ w[i].pc = "mkdir_tmp"
    /\ dirs' = dirs \cup Path_with_parents(local_tmp_dir(destination(i)))
    /\ w' = Step(i, "to_parquet", "mkdir")
    /\ UNCHANGED <<call, base, files, s3, clock>>

\* df.to_parquet(tmp_path, index=False)
ToParquetTmp(i) ==
    /\ w[i].pc = "to_parquet"
    /\ files' = put(files, local_tmp_path(destination(i)),
                    to_parquet(w[i].df))
    /\ w' = Step(i, "replace", "tmp")
    /\ UNCHANGED <<call, base, dirs, s3, clock>>

\* tmp_path.replace(final_path), then success = True; FileNotFoundError when
\* tmp_path is gone
ReplaceFinal(i) ==
    /\ w[i].pc = "replace"
    /\ LET tmp == local_tmp_path(destination(i))
           fin == local_final_path(destination(i))
       IN  IF tmp \in DOMAIN files
           THEN /\ files' = put(remove(files, tmp), fin, files[tmp])
                /\ w' = [Step(i, "manifest", "promote") EXCEPT
                            ![i].success = TRUE,
                            ![i].promoted_at = promotes_so_far + 1]
           ELSE /\ files' = files
                /\ w' = [w EXCEPT ![i].pc = "summary",
                                  ![i].err = "FileNotFoundError"]
    /\ UNCHANGED <<call, base, dirs, s3, clock>>

\* an upload followed at once by the delete of the temp object, with no copy
PutTmp_then_delete(i) ==
    /\ w[i].pc = "put_tmp"
    /\ s3' = put(s3, s3_tmp_key(destination(i)), to_parquet(w[i].df))
    /\ w' = Step(i, "delete", "tmp")
    /\ UNCHANGED <<call, base, dirs, files, clock>>

\* s3.put_object(Bucket=bucket, Key=tmp_key, Body=buf.getvalue())
PutTmp(i) ==
    /\ w[i].pc = "put_tmp"
    /\ s3' = put(s3, s3_tmp_key(destination(i)), to_parquet(w[i].df))
    /\ w' = Step(i, "copy", "tmp")
    /\ UNCHANGED <<call, base, dirs, files, clock>>

\* s3.copy_object(CopySource=tmp_key, Key=final_key); NoSuchKey when the temp
\* object is gone
CopyObject(i) ==
    /\ w[i].pc = "copy"
    /\ LET tmp == s3_tmp_key(destination(i))
           fin == s3_final_key(destination(i))
       IN  IF tmp \in DOMAIN s3
           THEN /\ s3' = put(s3, fin, s3[tmp])
                /\ w' = [Step(i, "delete", "promote") EXCEPT
                            ![i].promoted_at = promotes_so_far + 1]
           ELSE /\ s3' = s3
                /\ w' = [w EXCEPT ![i].pc = "summary", ![i].err = "NoSuchKey"]
    /\ UNCHANGED <<call, base, dirs, files, clock>>

\* s3.delete_object(Key=tmp_key), then success = True
DeleteTmp(i) ==
    /\ w[i].pc = "delete"
    /\ s3' = remove(s3, s3_tmp_key(destination(i)))
    /\ w' = [Step(i, "manifest", "delete") EXCEPT ![i].success = TRUE]
    /\ UNCHANGED <<call, base, dirs, files, clock>>

\* write_text(folder_uri, name, content) by writer i
write_text(folder_uri, name, content) ==
    IF _is_s3(folder_uri)
    THEN /\ s3' = put(s3, s3_object(s3_bucket(folder_uri),
                                    _join_uri(<<s3_rest(folder_uri), name>>)),
                      text_object(content))
         /\ UNCHANGED <<dirs, files>>
    ELSE /\ dirs' = dirs \cup Path_with_parents(_local_path_from_uri(folder_uri))
         /\ files' = put(files, Path_child(_local_path_from_uri(folder_uri), name),
                         text_object(content))
         /\ UNCHANGED s3

\* write_text(destination, "manifest.json", json.dumps(manifest, indent=2))
WriteManifest(i) ==
    /\ w[i].pc = "manifest"
    /\ write_text(destination(i), MANIFEST_JSON, manifest_of(i))
    /\ w' = Step(i, "marker", "manifest")
    /\ UNCHANGED <<call, base, clock>>

\* write_text(destination, "__SUCCESS", "")
WriteMarker(i) ==
    /\ w[i].pc = "marker"
    /\ write_text(destination(i), SUCCESS_NAME, <<>>)
    /\ w' = Step(i, "summary", "marker")
    /\ UNCHANGED <<call, base, clock>>

\* the storage call the writer is about to make raises (disk or network
\* failure): except Exception as e: err_msg = str(e)
StorageCalls == {"mkdir_tmp", "to_parquet", "replace", "put_tmp", "copy", "delete",
                 "manifest", "marker"}

\* a writer whose loop body goes on to the manifest after a failed call
CallFails_goes_on(i) ==
    /\ w[i].pc \in StorageCalls
    /\ w' = [w EXCEPT ![i].pc = "manifest", ![i].err = "BackendError"]
    /\ UNCHANGED <<call, base, dirs, files, s3, clock>>

CallFails(i) ==
    /\ w[i].pc \in StorageCalls
    /\ w' = [w EXCEPT ![i].pc = "summary", ![i].err = "BackendError"]
    /\ UNCHANGED <<call, base, dirs, files, s3, clock>>

\* results.append(SnapshotSummary(..., result="success" if success else ...))
Summary(i) ==
    /\ w[i].pc = "summary"
    /\ w' = [w EXCEPT ![i].pc = "done",
                      ![i].result = IF w[i].success THEN "success" ELSE "failure"]
    /\ UNCHANGED <<call, base, dirs, files, s3, clock>>

\* the process is killed between two calls
Interrupt(i) ==
    /\ w[i].pc \in StorageCalls
    /\ w' = [w EXCEPT ![i].pc = "crashed"]
    /\ UNCHANGED <<call, base, dirs, files, s3, clock>>

Next ==
    \/ \E i \in {1} : StartRun(i)
    \/ \E i \in {1} : LoadFails(i)
    \/ \E i \in {1} : MkdirTmp(i)
    \/ \E i \in {1} : ToParquetTmp(i)
    \/ \E i \in {1} : ReplaceFinal(i)
    \/ \E i \in {1} : PutTmp(i)
    \/ \E i \in {1} : CopyObject(i)
    \/ \E i \in {1} : DeleteTmp(i)
    \/ \E i \in {1} : WriteManifest(i)
    \/ \E i \in {1} : WriteMarker(i)
    \/ \E i \in {1} : CallFails(i)
    \/ \E i \in {1} : Summary(i)
    \/ \E i \in {1} : Interrupt(i)

Spec == Init /\ [][Next]_vars

(***************************************************************************)
(* The base location may be unset: BASE_URI of the writer is empty, and    *)
(* the reader is called with base_uri None or "" while SNAPSHOT_BASE_URI   *)
(* is not in its environment.                                              *)
(***************************************************************************)

\* os.getenv("SNAPSHOT_BASE_DIR") of an unset variable, base_uri=None
BASE_UNSET == <<>>

\* main(): "if not BASE_URI: raise RuntimeError(...)", before the loop
MainAborts(i) ==
    /\ base = BASE_UNSET
    /\ w[i].pc = "idle"
    /\ w' = [w EXCEPT ![i].pc = "aborted", ![i].err = "RuntimeError"]
    /\ UNCHANGED <<call, base, dirs, files, s3, clock>>

\* the start with an unset base: the reader's fallback location may hold
\* legacy flat snapshots
InitUnset ==
    /\ base = BASE_UNSET
    /\ \E dates \in SUBSET LegacyDates :
          /\ files = LegacyFiles(base, dates)
          /\ dirs = UNION {Path_with_parents(Path_parent(p)) :
                             p \in DOMAIN LegacyFiles(base, dates)}
    /\ s3 = <<>>
    /\ w = [i \in Writers |-> Idle]
    /\ clock = 0
    /\ call = NoCall

InitConfig == Init \/ InitUnset

NextConfig ==
    \/ \E i \in {1} : MainAborts(i)
    \/ Next

SpecConfig == InitConfig /\ [][NextConfig]_vars


(***************************************************************************)
(* Two invocations of the writer at the same time: two processes, each     *)
(* running main(only_datasets=[ds]) for one dataset, their storage calls   *)
(* interleaved in any order.  The backend is healthy here: a call fails    *)
(* only when the object it needs is gone.                                  *)
(***************************************************************************)

\* process i enters the loop body of main for its dataset: load_df() returned
Invoke(i) ==
    /\ base # <<>>
    /\ w[i].pc = "idle"
    /\ clock < MaxRuns
    /\ \E ds \in Datasets, df \in Payloads, d \in Dates :
          w' = [w EXCEPT ![i] =
                  [pc |-> IF _is_s3(base) THEN "put_tmp" ELSE "mkdir_tmp",
                   dataset |-> ds, df |-> df, today |-> d,
                   run |-> clock + 1, success |-> FALSE, err |-> "",
                   result |-> "", log |-> <<>>,
                   prior |-> prior_payload(ds, d), promoted_at |-> 0]]
    /\ clock' = clock + 1
    /\ UNCHANGED <<call, base, dirs, files, s3>>

NextTwo ==
    \/ \E i \in Writers : Invoke(i)
    \/ \E i \in Writers : MkdirTmp(i)
    \/ \E i \in Writers : ToParquetTmp(i)
    \/ \E i \in Writers : ReplaceFinal(i)
    \/ \E i \in Writers : PutTmp(i)
    \/ \E i \in Writers : CopyObject(i)
    \/ \E i \in Writers : DeleteTmp(i)
    \/ \E i \in Writers : WriteManifest(i)
    \/ \E i \in Writers : WriteMarker(i)
    \/ \E i \in Writers : Summary(i)

SpecTwo == Init /\ [][NextTwo]_vars

(***************************************************************************)
(* Calls of the path functions of storage.py on folders and names that     *)
(* carry separators of both styles.                                        *)
(***************************************************************************)

\* nothing, a forward slash or a backslash at an end of an argument
Seps == {<<>>, SLASH, BACKSLASH}

\* folder (or base) arguments: two segments joined in either style, with or
\* without a leading and a trailing separator
JoinFolders ==
    {l \o <<"a">> \o m \o <<"b">> \o t : l \in Seps, m \in {SLASH, BACKSLASH}, t \in Seps}

\* child names (or dataset names), with or without separators at the ends
JoinNames == {l \o <<"x">> \o t : l \in Seps, t \in Seps}

JoinOps == {"object_uri", "snapshot_root", "snapshot_uri"}

InitJoin ==
    /\ base = BASE_BARE_REL
    /\ dirs = {} /\ files = <<>> /\ s3 = <<>>
    /\ w = [i \in Writers |-> Idle]
    /\ clock = 0
    /\ \E op \in JoinOps, f \in JoinFolders, n \in JoinNames, d \in Dates :
          call = [op |-> op, pc |-> "called", folder |-> f, name |-> n,
                  d |-> d, out |-> <<>>]

\* the call returns v
Returns(v) == [call EXCEPT !.pc = "returned", !.out = v]

ObjectUriReturns ==
    /\ call.op = "object_uri" /\ call.pc = "called"
    /\ call' = Returns(object_uri(call.folder, call.name))
    /\ UNCHANGED <<base, dirs, files, s3, w, clock>>

SnapshotRootReturns ==
    /\ call.op = "snapshot_root" /\ call.pc = "called"
    /\ call' = Returns(snapshot_root(call.folder, call.name))
    /\ UNCHANGED <<base, dirs, files, s3, w, clock>>

SnapshotUriReturns ==
    /\ call.op = "snapshot_uri" /\ call.pc = "called"
    /\ call' = Returns(snapshot_uri(call.folder, call.name, call.d))
    /\ UNCHANGED <<base, dirs, files, s3, w, clock>>

NextJoin ==
    \/ ObjectUriReturns
    \/ SnapshotRootReturns
    \/ SnapshotUriReturns

SpecJoin == InitJoin /\ [][NextJoin]_vars

(***************************************************************************)
(* C1: an in-progress partition is never discoverable.  Whenever, for a    *)
(* dataset and date, only the temporary object is stored (no final object, *)
(* no manifest, no __SUCCESS, no legacy flat snapshot), list_dates does    *)
(* not contain the date and load of the date raises FileNotFoundError.     *)
(***************************************************************************)
C1_InProgressNotDiscoverable ==
    \A ds \in Datasets, d \in Dates :
        (/\ tmp_exists(ds, d)
         /\ ~final_exists(ds, d)
         /\ ~manifest_exists(ds, d)
         /\ ~has_success_marker(snapshot_uri(base, ds, d))
         /\ ~flat_exists(ds, isoformat(d)))
        => /\ isoformat(d) \notin Elems(list_dates(ds, base).val)
           /\ load(ds, isoformat(d), base, {}).exc = "FileNotFoundError"

(***************************************************************************)
(* C2: the completion marker gates visibility.  For every dataset and date *)
(* whose partition folder holds no __SUCCESS, the reader treats the        *)
(* partition as absent: load never returns the partition's payload object, *)
(* and list_dates omits the date (unless a legacy flat snapshot of that    *)
(* date exists).                                                           *)
(***************************************************************************)
C2_MarkerGatesVisibility ==
    \A ds \in Datasets, d \in Dates :
        LET t == isoformat(d)
        IN  ~has_success_marker(snapshot_uri(base, ds, d))
            => /\ LET r == load(ds, t, base, {})
                  IN  r.exc = "none" => r.read # rp(ds, t).pref_loc
               /\ ~flat_exists(ds, t) => t \notin Elems(list_dates(ds, base).val)

(***************************************************************************)
(* C3: in every writer run, manifest.json and __SUCCESS are written only   *)
(* after the payload promote has succeeded, in the order promote ->        *)
(* manifest -> marker; a run whose load or write_parquet_atomic fails      *)
(* writes neither.  As a property of every step: a step that changes a     *)
(* stored manifest.json, or creates a __SUCCESS, is taken by a run that    *)
(* has promoted its payload to that folder (and, for the marker, has       *)
(* written its manifest); a run writes its manifest right after its        *)
(* write_parquet_atomic returned and its marker right after its manifest;  *)
(* and a run that ends without success has written neither.                *)
(***************************************************************************)
promoted(i, ds, d) ==
    /\ w[i].success
    /\ w[i].dataset = ds /\ w[i].today = d
    /\ "promote" \in Elems(w[i].log)
    /\ stored(wp(ds, d).final) = <<to_parquet(w[i].df)>>

C3_Step ==
    /\ (files' # files \/ s3' # s3) => \A ds \in Datasets, d \in Dates :
          /\ stored_in(files', s3', wp(ds, d).manifest) # stored(wp(ds, d).manifest)
                => \E i \in Writers : w[i].pc = "manifest" /\ promoted(i, ds, d)
          /\ stored_in(files', s3', wp(ds, d).marker) # stored(wp(ds, d).marker)
                => \E i \in Writers :
                      /\ w[i].pc = "marker" /\ promoted(i, ds, d)
                      /\ stored(wp(ds, d).manifest) = <<text_object(manifest_of(i))>>
    /\ \A i \in Writers :
          /\ (w[i].log' # w[i].log /\ last(w[i].log') = "manifest")
                => last(w[i].log) \in {"promote", "delete"} /\ w[i].success
          /\ (w[i].log' # w[i].log /\ last(w[i].log') = "marker")
                => last(w[i].log) = "manifest"
          /\ (w[i].pc' \in {"summary", "done"} /\ ~w[i].success')
                => Elems(w[i].log') \cap {"manifest", "marker"} = {}

\* C3: every step keeps the order promote -> manifest -> marker, and a run
\* that fails writes neither manifest.json nor __SUCCESS
C3_ManifestMarkerAfterPromote == [][C3_Step]_vars

\* a run has written payload, manifest and marker, in that order
C3_Witness ==
    /\ run_complete(1)
    /\ marker_exists(w[1].dataset, w[1].today)
    /\ SubSeq(w[1].log, Len(w[1].log) - 1, Len(w[1].log)) = <<"manifest", "marker">>

(***************************************************************************)
(* C4: write/read round trip.  For every accepted form of the base         *)
(* location, given identically to writer and reader: once a run has        *)
(* written payload, manifest.json and __SUCCESS for (D, T), load(D, T,     *)
(* base) returns exactly the payload written.                              *)
(***************************************************************************)
C4_RoundTrip ==
    run_complete(1)
        => LET r == load(w[1].dataset, isoformat(w[1].today), base, {})
           IN  r.exc = "none" /\ r.val = w[1].df

(***************************************************************************)
(* C5: overwrite is total.  After a second complete run for a (D, T) that  *)
(* held a complete partition with a different payload, the payload object, *)
(* manifest.json and __SUCCESS are those of the second run and load(D, T)  *)
(* returns the second payload only.                                        *)
(***************************************************************************)
C5_OverwriteTotal ==
    (run_complete(1) /\ w[1].prior # <<>> /\ w[1].prior # w[1].df)
        => LET ds == w[1].dataset
               d  == w[1].today
               r  == load(ds, isoformat(d), base, {})
           IN  /\ stored(wp(ds, d).final) = <<to_parquet(w[1].df)>>
               /\ stored(wp(ds, d).manifest) = <<text_object(manifest_of(1))>>
               /\ has_success_marker(snapshot_uri(base, ds, d))
               /\ r.exc = "none" /\ r.val = w[1].df

(***************************************************************************)
(* C6: the writer never leaves a complete-looking but wrong partition.     *)
(* After every step: a partition folder that holds __SUCCESS holds the     *)
(* final payload and a manifest.json that describes that payload (same     *)
(* dataset, date and row count); and a step taken while the folder holds   *)
(* __SUCCESS changes neither its payload nor its manifest.                 *)
(***************************************************************************)
C6_Step ==
    (files' # files \/ s3' # s3) => \A ds \in Datasets, d \in Dates :
        LET marker_after   == stored_in(files', s3', wp(ds, d).marker)
            manifest_after == stored_in(files', s3', wp(ds, d).manifest)
            final_after    == stored_in(files', s3', wp(ds, d).final)
        IN  /\ marker_after # <<>>
                => /\ final_after # <<>> /\ manifest_after # <<>>
                   /\ manifest_after[1].meta[1] = ds
                   /\ manifest_after[1].meta[2] = Len(final_after[1].rows)
                   /\ manifest_after[1].meta[3] = isoformat(d)
            /\ marker_exists(ds, d)
                => /\ final_after = stored(wp(ds, d).final)
                   /\ manifest_after = stored(wp(ds, d).manifest)

\* C6: no step leaves __SUCCESS next to a payload and manifest that disagree,
\* or changes payload or manifest while __SUCCESS is present
C6_NeverCompleteLookingButWrong == [][C6_Step]_vars

(***************************************************************************)
(* C7: list_dates(D) returns exactly the dates that appear as a child      *)
(* folder YYYY-MM-DD or as a child file YYYY-MM-DD.parquet of the dataset  *)
(* root, without duplicates and ascending, and the empty list when the     *)
(* root is absent; latest_date(D) is its last element, None when empty.    *)
(***************************************************************************)
C7_ListDates ==
    \A ds \in Datasets :
        LET r == list_dates(ds, base)
            l == latest_date(ds, base)
        IN  /\ r.exc = "none" /\ l.exc = "none"
            /\ Elems(r.val) = {t \in DateStrs : date_folder_exists(ds, t)
                                                   \/ flat_exists(ds, t)}
            /\ \A k \in 1..(Len(r.val) - 1) : str_lt(r.val[k], r.val[k + 1])
            /\ root_absent(ds) => r.val = <<>>
            /\ l.val = IF r.val = <<>> THEN None
                       ELSE CHOOSE t \in Elems(r.val) :
                                \A u \in Elems(r.val) \ {t} : str_lt(u, t)

\* a legacy flat file of one date and a date folder of a later date are listed
C7_Witness ==
    /\ flat_exists(LegacyDataset, isoformat(Day(1)))
    /\ ~date_folder_exists(LegacyDataset, isoformat(Day(1)))
    /\ date_folder_exists(LegacyDataset, isoformat(Day(2)))
    /\ list_dates(LegacyDataset, base).val = <<isoformat(Day(1)), isoformat(Day(2))>>

(***************************************************************************)
(* C8: load(D, date) prefers the partitioned layout.  If the partitioned   *)
(* object exists (and its read does not fail in the backend) its payload   *)
(* is returned, also when a legacy flat object of the date exists; the     *)
(* legacy flat object is read only when the partitioned object is absent.  *)
(***************************************************************************)
C8_PrefersPartitioned ==
    \A ds \in Datasets, t \in DateStrs, fault \in Faults :
        LET r == load(ds, t, base, fault)
        IN  /\ (pref_exists(ds, t) /\ "pref" \notin fault)
                => /\ r.exc = "none" /\ r.read = rp(ds, t).pref_loc
                   /\ r.val = stored(rp(ds, t).pref)[1].rows
            /\ (r.exc = "none" /\ r.read = rp(ds, t).flat_loc) => ~pref_exists(ds, t)

(***************************************************************************)
(* C9: when neither the partitioned object nor the legacy flat object of   *)
(* (D, date) exists, load(D, date) fails with FileNotFoundError and the    *)
(* error names both attempted locations, on the local and the S3 backend.  *)
(***************************************************************************)
C9_NotFoundNamesBoth ==
    \A ds \in Datasets, t \in DateStrs :
        (~pref_exists(ds, t) /\ ~flat_exists(ds, t))
            => LET r == load(ds, t, base, {})
               IN  /\ r.exc = "FileNotFoundError"
                   /\ r.names = {rp(ds, t).pref_loc, rp(ds, t).flat_loc}

(***************************************************************************)
(* C10: for a date whose only snapshot is a legacy flat object (no date    *)
(* folder, so no manifest and no marker), load(D, date) succeeds by        *)
(* falling back to the flat object and load_manifest(D, date) fails with   *)
(* FileNotFoundError.                                                      *)
(***************************************************************************)
only_flat(ds, t) == flat_exists(ds, t) /\ ~date_folder_exists(ds, t)

\* C10: a date with only a legacy flat object loads from the flat object, and
\* its load_manifest fails with FileNotFoundError
C10_LegacyOnly ==
    \A ds \in Datasets, t \in DateStrs :
        only_flat(ds, t)
            => /\ LET r == load(ds, t, base, {})
                  IN  /\ r.exc = "none"
                      /\ r.read = rp(ds, t).flat_loc
                      /\ r.val = stored(rp(ds, t).flat)[1].rows
               /\ load_manifest(ds, t, base).exc = "FileNotFoundError"

\* after a writer run for another date, a date still has only its flat object
C10_Witness ==
    /\ only_flat(LegacyDataset, isoformat(Day(1)))
    /\ run_complete(1)
    /\ load(LegacyDataset, isoformat(Day(1)), base, {}).exc = "none"

(***************************************************************************)
(* C11: an empty or unset base location is a configuration error raised    *)
(* before any I/O.  With no base given and none in the environment, every   *)
(* reader operation (list_dates, latest_date, load, load_manifest) raises   *)
(* the configuration error (ValueError) instead of reading storage, and     *)
(* main() raises it (RuntimeError) without starting a run: no loader is     *)
(* called and nothing is written.                                           *)
(***************************************************************************)
C11_EmptyBaseIsConfigError ==
    base = BASE_UNSET
        => /\ \A ds \in Datasets :
                /\ list_dates(ds, base).exc = "ValueError"
                /\ latest_date(ds, base).exc = "ValueError"
                /\ load_manifest(ds, None, base).exc = "ValueError"
                /\ \A t \in DateStrs \cup {None} :
                      load(ds, t, base, {}).exc = "ValueError"
           /\ \A i \in Writers :
                /\ w[i].pc \in {"idle", "aborted"}
                /\ w[i].pc = "aborted" => w[i].err = "RuntimeError"
                /\ w[i].df = <<>> /\ w[i].log = <<>> /\ w[i].run = 0

(***************************************************************************)
(* C12: a writer run for (D, T) creates or changes only objects under      *)
(* <base>/D/T/ and never touches another partition or a legacy flat        *)
(* object; so runs for different datasets, interleaved in any order, each  *)
(* leave their own partition complete.  For every step: some writer took   *)
(* it, every object stored, changed or removed by it lies in that writer's *)
(* partition folder, no directory is removed, and every legacy flat object *)
(* is as before.  And whenever two runs for different datasets have both   *)
(* written their marker, each partition holds its own run's payload,       *)
(* manifest and marker.                                                    *)
(***************************************************************************)

\* the store-key prefix, or the local path, of the partition folder of writer i
folder_place(i) ==
    IF _is_s3(base) THEN key_of(wp(w[i].dataset, w[i].today).folder) \o SLASH
    ELSE Path_parent(wp(w[i].dataset, w[i].today).final)

\* place k lies in the partition folder of writer i
in_folder(i, k) ==
    IF _is_s3(base) THEN startswith(k, folder_place(i))
    ELSE Len(k) > Len(folder_place(i))
         /\ SubSeq(k, 1, Len(folder_place(i))) = folder_place(i)

\* the places whose stored object differs between two storage states
changed_places(F, S, G, T) ==
    {k \in DOMAIN F \cup DOMAIN G : stored_in(F, S, k) # stored_in(G, T, k)}
        \cup {k \in DOMAIN S \cup DOMAIN T : stored_in(F, S, k) # stored_in(G, T, k)}

C12_Step ==
    (files' # files \/ s3' # s3 \/ dirs' # dirs)
        => /\ \E i \in Writers :
                /\ w'[i] # w[i]
                /\ \A k \in changed_places(files, s3, files', s3') : in_folder(i, k)
           /\ dirs \subseteq dirs'
           /\ \A ds \in Datasets, t \in DateStrs :
                stored_in(files', s3', rp(ds, t).flat) = stored(rp(ds, t).flat)

own_partition_complete(i) ==
    LET ds == w[i].dataset
        d  == w[i].today
    IN  /\ stored(wp(ds, d).final) = <<to_parquet(w[i].df)>>
        /\ stored(wp(ds, d).manifest) = <<text_object(manifest_of(i))>>
        /\ marker_exists(ds, d)

C12_BothComplete ==
    (run_complete(1) /\ run_complete(2) /\ w[1].dataset # w[2].dataset)
        => own_partition_complete(1) /\ own_partition_complete(2)

\* C12: every step stays inside the acting writer's partition folder, and two
\* complete runs for different datasets each leave their own partition complete
C12_WriterFrame == [][C12_Step]_vars /\ []C12_BothComplete

\* two runs for different datasets whose steps interleaved are both complete
C12_Witness ==
    /\ run_complete(1) /\ run_complete(2)
    /\ w[1].dataset # w[2].dataset
    /\ w[1].run = 1 /\ w[2].run = 2
    /\ own_partition_complete(1) /\ own_partition_complete(2)

(***************************************************************************)
(* C13: object_uri(folder, name), snapshot_root and snapshot_uri return a  *)
(* location in which the joined parts are separated by exactly one forward *)
(* slash, whatever forward-slash or backslash separators the folder and    *)
(* the name carry at their ends or inside: apart from separators at the    *)
(* two ends of the result, the result is the folder without its end        *)
(* separators, one "/", and the name without its end separators (and, for  *)
(* snapshot_uri, one "/" and the ISO date), all in forward-slash style.    *)
(***************************************************************************)
\* an argument without the separators at its ends, in forward-slash style
bare(s) == replace(strip(s, {"/", "\\"}), BACKSLASH, SLASH)

C13_JoinOneSeparator ==
    call.pc = "returned"
        => strip(call.out, {"/"}) =
              bare(call.folder) \o SLASH \o bare(call.name)
                 \o (IF call.op = "snapshot_uri" THEN SLASH \o isoformat(call.d)
                     ELSE <<>>)

(***************************************************************************)
(* C14: with two writer invocations for the same (D, T) whose steps        *)
(* interleave arbitrarily, last physical promote wins: once both have      *)
(* finished, the final payload object is the complete payload of the       *)
(* writer whose promote step executed last.                                *)
(***************************************************************************)
C14_LastPromoteWins ==
    (/\ \A i \in Writers : w[i].pc \in {"summary", "done"}
     /\ w[1].dataset = w[2].dataset /\ w[1].today = w[2].today
     /\ promotes_so_far > 0)
        => \A i \in Writers :
              w[i].promoted_at = promotes_so_far
                 => stored(wp(w[i].dataset, w[i].today).final) = <<to_parquet(w[i].df)>>

(***************************************************************************)
(* C15: on the object store the promote is put-temp, copy-temp-to-final,   *)
(* delete-temp in that order, and the delete is issued only after the copy *)
(* has succeeded; if the put or the copy fails, the temp object is not     *)
(* deleted and the final object stays as it was.  For every step of a      *)
(* writer on the object store: the calls follow that order; a step that    *)
(* removes the temp object is the delete after a successful copy; a step   *)
(* that changes the final object is the copy, and it stores the temp       *)
(* object; and a step in which the put or the copy fails changes nothing   *)
(* in the store.  (The final object changes in no other step, so it is as  *)
(* before the run until the copy succeeds.)                                *)
(***************************************************************************)
C15_Step ==
    _is_s3(base) => \A i \in Writers : w'[i] # w[i] =>
        LET p    == wp(w[i].dataset, w[i].today)
            did  == IF w[i].log' # w[i].log THEN last(w[i].log') ELSE ""
        IN  /\ did = "tmp" => w[i].log = <<>>
            /\ did = "promote" => w[i].log = <<"tmp">>
            /\ did = "delete" => w[i].log = <<"tmp", "promote">>
            /\ (w[i].dataset # <<>> /\ stored(p.tmp) # <<>>
                    /\ stored_in(files', s3', p.tmp) = <<>>)
                  => did = "delete"
            /\ (w[i].dataset # <<>>
                    /\ stored_in(files', s3', p.final) # stored(p.final))
                  => did = "promote" /\ stored_in(files', s3', p.final) = stored(p.tmp)
            /\ (w[i].pc \in {"put_tmp", "copy"} /\ w[i].err' # "")
                  => s3' = s3

\* C15: put, copy, delete in that order; no delete and no change of the final
\* object when the put or the copy fails
C15_S3PromoteOrder == [][C15_Step]_vars

\* the copy of a run failed: the temp object is still there, and no final object
C15_Witness ==
    /\ _is_s3(base)
    /\ w[1].pc = "summary" /\ w[1].err = "BackendError" /\ w[1].log = <<"tmp">>
    /\ tmp_exists(w[1].dataset, w[1].today)
    /\ ~final_exists(w[1].dataset, w[1].today)

(***************************************************************************)
(* C16: the per-dataset summary of main() is truthful about completion:    *)
(* the result recorded for a dataset is "success" only if the payload was  *)
(* promoted and manifest.json and __SUCCESS were both written by the run;  *)
(* when a write_text call fails after the promote, the result is a         *)
(* failure.                                                                *)
(***************************************************************************)
C16_SummaryTruthful ==
    \A i \in Writers :
        (w[i].pc = "done" /\ w[i].result = "success")
            => /\ {"promote", "manifest", "marker"} \subseteq Elems(w[i].log)
               /\ w[i].err = ""

(***************************************************************************)
(* C17: discovery and loading agree.  In every reachable storage state,    *)
(* load(D, date) succeeds for every date that list_dates(D) returns; and   *)
(* load(D) and latest_snapshot(D) with the date omitted succeed whenever   *)
(* D has at least one complete partition or legacy flat snapshot, also     *)
(* when a newer date folder is empty, in progress or left by a failed run. *)
(***************************************************************************)
has_snapshot(ds) ==
    \E d \in Dates :
        \/ flat_exists(ds, isoformat(d))
        \/ pref_exists(ds, isoformat(d)) /\ marker_exists(ds, d)

C17_DiscoveryAgreesWithLoad ==
    \A ds \in Datasets :
        /\ \A t \in Elems(list_dates(ds, base).val) :
              load(ds, t, base, {}).exc = "none"
        /\ has_snapshot(ds)
              => /\ load(ds, None, base, {}).exc = "none"
                 /\ latest_snapshot(ds, base).exc = "none"

====
